---- MODULE Spec2Model ----
(***************************************************************************)
(* Model of the wccc certificate-trading queries: the wechat_messages      *)
(* table, the SQL query set that classifies, deduplicates and matches      *)
(* demand ("收") and supply ("出") listings, and the Next.js route handlers *)
(* that search the table and count certificate tags.                       *)
(*                                                                         *)
(* Text columns are sequences of characters, so that LIKE '%x%' is a real  *)
(* substring test.  Characters are written in pinyin: shou 收, jie 接,      *)
(* zhao 招, pin 聘, xun 寻, chu 出, yao 要, xu 需, zhao3 找, gong 供,        *)
(* zheng 证.  A nullable column is a record [isnull, v].                    *)
(***************************************************************************)
EXTENDS Integers, Sequences, FiniteSets, TLC

VARIABLES wechat_messages, now, response, handler

vars == <<wechat_messages, now, response, handler>>

----------------------------------------------------------------------------
(* Bounds of the model *)

MaxRecords == 3
MaxTagRecords == 5
MaxTime == 2
MaxMonoRecords == 4

----------------------------------------------------------------------------
(* Column values *)

Null == [isnull |-> TRUE, v |-> <<>>]

Val(x) == [isnull |-> FALSE, v |-> x]

\* type values the extraction step is observed to produce (and near misses)
TypeDemand == <<"zhao", "pin">>
TypeSupply == <<"chu">>
TypeBoth == <<"shou", "chu">>
TypeOther == <<"zhao">>

Types == {TypeDemand, TypeSupply, TypeBoth, TypeOther}

Fingerprints == {<<"A", "x">>, <<"A", "y">>, <<"B", "x">>}

\* certificate tags; a split_certificates array holds no tag twice and no
\* empty tag (data model of the extraction step)
TagA == <<"A", "zheng">>
TagB == <<"B", "zheng">>
TagC == <<"C", "zheng">>

\* collation order of the characters that occur in tags
CharOrder == <<"A", "B", "C", "zheng">>

----------------------------------------------------------------------------
(* Generic helpers *)

Range(s) == {s[i] : i \in 1..Len(s)}

Min2(a, b) == IF a < b THEN a ELSE b

\* the first n elements of s (SQL LIMIT n)
Limit(s, n) == SubSeq(s, 1, Min2(Len(s), n))

\* LIKE '%pat%' on a non-null text value
Like(text, pat) ==
    \E i \in 0..(Len(text) - Len(pat)) : SubSeq(text, i + 1, i + Len(pat)) = pat

CharRank(c) == CHOOSE i \in 1..Len(CharOrder) : CharOrder[i] = c

\* s sorts strictly before t (text comparison, ORDER BY ... ASC)
RECURSIVE TextLess(_, _)
TextLess(s, t) ==
    IF t = <<>> THEN FALSE
    ELSE IF s = <<>> THEN TRUE
    ELSE IF Head(s) = Head(t) THEN TextLess(Tail(s), Tail(t))
    ELSE CharRank(Head(s)) < CharRank(Head(t))

\* every ordering of the finite set S in which no element comes after one
\* that Before puts strictly behind it; rows that tie come in any order
Orderings(S, Before(_, _)) ==
    LET n == Cardinality(S)
    IN {f \in [1..n -> S] :
          /\ \A i, j \in 1..n : i # j => f[i] # f[j]
          /\ \A i, j \in 1..n : i < j => ~Before(f[j], f[i])}

\* the elements of a column array, NULL and '{}' giving none (unnest)
Unnest(arr) == IF arr.isnull THEN {} ELSE Range(arr.v)

\* split_certificates IS NOT NULL AND split_certificates != '{}'::text[]
NonEmptyCerts(r) ==
    /\ ~r.split_certificates.isnull
    /\ r.split_certificates.v # <<>>

----------------------------------------------------------------------------
(* The table *)

Rows == Range(wechat_messages)

\* no reply is in flight
NoResponse == [query |-> "none", rows |-> <<>>]

\* the search handler between requests: the position (the query it issues
\* next), the request, the results it holds, and the queries it has issued
IdleHandler ==
    [pc |-> "idle", location |-> Null, certificate |-> Null,
     receive |-> <<>>, send |-> <<>>, receiveStats |-> 0,
     issued |-> <<>>, failed |-> "none"]

Init ==
    /\ wechat_messages = <<>>
    /\ now = 1
    /\ response = NoResponse
    /\ handler = IdleHandler

\* the upstream pipeline appends one extracted record; id is the serial
\* key, created_at the ingestion time, timestamp the time of the message
IngestWith(max, TypeSet, FpSet, CertSet, LocSet, TsSet) ==
    /\ Len(wechat_messages) < max
    /\ \E ty \in TypeSet, fp \in FpSet, certs \in CertSet, loc \in LocSet,
          ts \in TsSet, t \in {now, now + 1} :
          /\ t <= MaxTime
          /\ now' = t
          /\ wechat_messages' = Append(wechat_messages,
                 [id |-> Len(wechat_messages) + 1,
                  type |-> ty,
                  original_info |-> fp[1],
                  member_wxid |-> fp[2],
                  split_certificates |-> certs,
                  location |-> loc,
                  timestamp |-> ts,
                  created_at |-> t])
    /\ response' = NoResponse
    /\ UNCHANGED handler

\* the same, for messages that all carry one timestamp
IngestFrom(max, TypeSet, FpSet, CertSet, LocSet) ==
    IngestWith(max, TypeSet, FpSet, CertSet, LocSet, {1})

\* records of every category, with or without certificates
Ingest == IngestFrom(MaxRecords, Types, Fingerprints, {Null, Val(<<TagB>>)}, {Null})

----------------------------------------------------------------------------
(* Category predicates of the SQL set *)

IsDemand(r) ==
    \/ Like(r.type, <<"shou">>)
    \/ Like(r.type, <<"jie">>)
    \/ Like(r.type, <<"zhao", "pin">>)
    \/ Like(r.type, <<"xun">>)

IsSupply(r) == Like(r.type, <<"chu">>)

\* the other-category filter with the supply marker forgotten
IsOtherNoSupplyMarker(r) ==
    /\ ~Like(r.type, <<"shou">>)
    /\ ~Like(r.type, <<"jie">>)
    /\ ~Like(r.type, <<"zhao", "pin">>)
    /\ ~Like(r.type, <<"xun">>)

IsOther(r) ==
    /\ ~Like(r.type, <<"shou">>)
    /\ ~Like(r.type, <<"jie">>)
    /\ ~Like(r.type, <<"zhao", "pin">>)
    /\ ~Like(r.type, <<"xun">>)
    /\ ~Like(r.type, <<"chu">>)

----------------------------------------------------------------------------
(* Window functions *)

SameFingerprint(r, s) ==
    /\ r.original_info = s.original_info
    /\ r.member_wxid = s.member_wxid

\* PARTITION BY original_info, member_wxid
Partition(S, r) == {s \in S : SameFingerprint(r, s)}

\* the numbering with ORDER BY created_at ASC in place of DESC
RowNumbersAscending(S) ==
    {rn \in [S -> 1..Cardinality(S)] :
        \A r \in S :
          /\ rn[r] <= Cardinality({s \in S : /\ s.original_info = r.original_info
                                             /\ s.member_wxid = r.member_wxid})
          /\ \A s \in S :
               (s.original_info = r.original_info /\ s.member_wxid = r.member_wxid) =>
                 /\ s # r => rn[s] # rn[r]
                 /\ s.created_at < r.created_at => rn[s] < rn[r]}

\* ROW_NUMBER() OVER (PARTITION BY original_info, member_wxid
\*                    ORDER BY created_at DESC): every numbering the
\* database may produce; rows of equal created_at are numbered either way
RowNumbers(S) ==
    {rn \in [S -> 1..Cardinality(S)] :
        \A r \in S :
          /\ rn[r] <= Cardinality(Partition(S, r))
          /\ \A s \in Partition(S, r) :
               /\ s # r => rn[s] # rn[r]
               /\ s.created_at > r.created_at => rn[s] < rn[r]}

\* the count over the whole input, without the partition
DuplicateCountUnpartitioned(S, r) == Cardinality(S)

\* COUNT(*) OVER (PARTITION BY original_info, member_wxid)
DuplicateCount(S, r) == Cardinality(Partition(S, r))

----------------------------------------------------------------------------
(* The three category queries: deduplicate, keep the repeat count *)

LimitReceive == 5000000
LimitSend == 5000
LimitOther == 1000

CreatedAtDesc(a, b) == a.msg.created_at > b.msg.created_at

\* WITH ranked_messages AS (SELECT *, ROW_NUMBER() ... as rn,
\*   COUNT(*) OVER (...) as duplicate_count, cat as transaction_category
\*   FROM wechat_messages WHERE <category>)
RankedMessages(S, rn, cat) ==
    {[msg |-> r, rn |-> rn[r], duplicate_count |-> DuplicateCount(S, r),
      transaction_category |-> cat] : r \in S}

\* the query without WHERE rn = 1
DedupQueryAllRanks(S, cat, n) ==
    UNION {{Limit(out, n) :
              out \in Orderings(RankedMessages(S, rn, cat), CreatedAtDesc)} :
           rn \in RowNumbers(S)}

\* SELECT * FROM ranked_messages WHERE rn = 1 ORDER BY created_at DESC
\* LIMIT n: every result the query can return
DedupQuery(S, cat, n) ==
    UNION {{Limit(out, n) :
              out \in Orderings({m \in RankedMessages(S, rn, cat) : m.rn = 1},
                                CreatedAtDesc)} :
           rn \in RowNumbers(S)}

ReceiveMessages == DedupQuery({r \in Rows : IsDemand(r)}, "shou", LimitReceive)

SendMessages == DedupQuery({r \in Rows : IsSupply(r)}, "chu", LimitSend)

OtherMessages == DedupQuery({r \in Rows : IsOther(r)}, "qita", LimitOther)

QueryReceive ==
    /\ \E out \in ReceiveMessages :
          response' = [query |-> "receive_messages", rows |-> out]
    /\ UNCHANGED <<wechat_messages, now, handler>>

QuerySend ==
    /\ \E out \in SendMessages :
          response' = [query |-> "send_messages", rows |-> out]
    /\ UNCHANGED <<wechat_messages, now, handler>>

QueryOther ==
    /\ \E out \in OtherMessages :
          response' = [query |-> "other_messages", rows |-> out]
    /\ UNCHANGED <<wechat_messages, now, handler>>

----------------------------------------------------------------------------
(* query_wechat_messages.sql: every message with its repeat count *)

LimitAll == 1000

\* SELECT ..., COUNT(*) OVER (PARTITION BY original_info, member_wxid) as
\* duplicate_count FROM wechat_messages ORDER BY created_at DESC LIMIT 1000
AllMessagesQuery ==
    {Limit(out, LimitAll) :
       out \in Orderings({[msg |-> r, duplicate_count |-> DuplicateCount(Rows, r)] :
                            r \in Rows},
                         CreatedAtDesc)}

QueryAllMessages ==
    /\ \E out \in AllMessagesQuery :
          response' = [query |-> "all_messages", rows |-> out]
    /\ UNCHANGED <<wechat_messages, now, handler>>

----------------------------------------------------------------------------
(* Per-listing availability: receive_messages_with_supply_stats.sql *)

\* the set of texts S in ascending order (ORDER BY cert)
RECURSIVE TextSorted(_)
TextSorted(S) ==
    IF S = {} THEN <<>>
    ELSE LET first == CHOOSE a \in S : \A b \in S \ {a} : TextLess(a, b)
         IN <<first>> \o TextSorted(S \ {first})

\* array_agg(DISTINCT x ...) over the texts S: NULL when there is no row
ArrayAggDistinct(S) == IF S = {} THEN Null ELSE Val(TextSorted(S))

\* one row per array element of every record of S (unnest in FROM)
Unnested(S) ==
    UNION {{<<r, i>> : i \in 1..Len(r.split_certificates.v)} :
             r \in {x \in S : NonEmptyCerts(x)}}

\* supply_messages: supply records with certificates, numbered
SupplyMessages == {r \in Rows : IsSupply(r) /\ NonEmptyCerts(r)}

\* deduplicated_supply: SELECT * FROM supply_messages WHERE rn = 1
DeduplicatedSupply(rn) == {r \in SupplyMessages : rn[r] = 1}

\* supply_counts: SELECT cert, COUNT(*) ... GROUP BY cert
SupplyCounts(rn) ==
    LET elems == Unnested(DeduplicatedSupply(rn))
    IN {[cert |-> c,
         supply_count |->
            Cardinality({e \in elems : e[1].split_certificates.v[e[2]] = c})] :
          c \in {e[1].split_certificates.v[e[2]] : e \in elems}}

RECURSIVE SumSupplyCount(_)
SumSupplyCount(S) ==
    IF S = {} THEN 0
    ELSE LET sc == CHOOSE x \in S : TRUE
         IN sc.supply_count + SumSupplyCount(S \ {sc})

\* FROM supply_counts sc WHERE sc.cert = ANY(rm.split_certificates)
MatchingCounts(counts, r) ==
    {sc \in counts : sc.cert \in Unnest(r.split_certificates)}

\* the final SELECT for one numbering of the supply and of the demand
SupplyStatsRows(rnSupply, rnDemand) ==
    LET D == {r \in Rows : IsDemand(r)}
        counts == SupplyCounts(rnSupply)
    IN {[msg |-> r.msg, rn |-> r.rn, duplicate_count |-> r.duplicate_count,
         transaction_category |-> r.transaction_category,
         total_supply_count |-> SumSupplyCount(MatchingCounts(counts, r.msg)),
         available_certificates_count |->
            Cardinality({sc.cert : sc \in MatchingCounts(counts, r.msg)}),
         available_certificates |->
            ArrayAggDistinct({sc.cert : sc \in MatchingCounts(counts, r.msg)})] :
          r \in {m \in RankedMessages(D, rnDemand, "shou") : m.rn = 1}}

\* ... ORDER BY rm.created_at DESC LIMIT 5000000: every possible result
SupplyStatsQuery ==
    UNION {UNION {{Limit(out, LimitReceive) :
                     out \in Orderings(SupplyStatsRows(rnS, rnD), CreatedAtDesc)} :
                  rnD \in RowNumbers({r \in Rows : IsDemand(r)})} :
           rnS \in RowNumbers(SupplyMessages)}

QuerySupplyStats ==
    /\ \E out \in SupplyStatsQuery :
          response' = [query |-> "supply_stats", rows |-> out]
    /\ UNCHANGED <<wechat_messages, now, handler>>

----------------------------------------------------------------------------
(* Per-listing availability: receive_messages_with_available_certificates.sql *)

\* final_send: supply records deduplicated, for one numbering
FinalSend(rn) == {r \in {x \in Rows : IsSupply(x)} : rn[r] = 1}

\* the unnested_cert rows that pass the WHERE of both subqueries
AvailableCerts(fr, finalSend) ==
    {c \in Unnest(fr.split_certificates) :
       /\ NonEmptyCerts(fr)
       /\ \E fs \in finalSend :
            /\ NonEmptyCerts(fs)
            /\ c \in Unnest(fs.split_certificates)}

\* CASE WHEN ... IS NULL OR ... = '{}' THEN 0 ELSE array_length(..., 1) END
TotalCertificatesCount(fr) ==
    IF ~NonEmptyCerts(fr) THEN 0 ELSE Len(fr.split_certificates.v)

AvailableRows(rnSend, rnReceive) ==
    LET D == {r \in Rows : IsDemand(r)}
    IN {[msg |-> r.msg, rn |-> r.rn, duplicate_count |-> r.duplicate_count,
         transaction_category |-> r.transaction_category,
         available_certificates_count |->
            Cardinality(AvailableCerts(r.msg, FinalSend(rnSend))),
         total_certificates_count |-> TotalCertificatesCount(r.msg),
         available_certificates_list |->
            ArrayAggDistinct(AvailableCerts(r.msg, FinalSend(rnSend)))] :
          r \in {m \in RankedMessages(D, rnReceive, "shou") : m.rn = 1}}

AvailableQuery ==
    UNION {UNION {{Limit(out, LimitReceive) :
                     out \in Orderings(AvailableRows(rnS, rnD), CreatedAtDesc)} :
                  rnD \in RowNumbers({r \in Rows : IsDemand(r)})} :
           rnS \in RowNumbers({r \in Rows : IsSupply(r)})}

QueryAvailable ==
    /\ \E out \in AvailableQuery :
          response' = [query |-> "available_certificates", rows |-> out]
    /\ UNCHANGED <<wechat_messages, now, handler>>

----------------------------------------------------------------------------
(* Aggregate tag match statistics: the certificate match summary query *)

\* receive_certificates: demand records with certificates, numbered, rn = 1
ReceiveCertificates(rn) ==
    {r \in {x \in Rows : IsDemand(x) /\ NonEmptyCerts(x)} : rn[r] = 1}

\* send_certificates: supply records with certificates, numbered, rn = 1
SendCertificates(rn) ==
    {r \in {x \in Rows : IsSupply(x) /\ NonEmptyCerts(x)} : rn[r] = 1}

\* SELECT cert, COUNT(*) FROM S CROSS JOIN unnest(split_certificates)
\* GROUP BY cert, as a function of the certs that have a row
CertificateStats(S) ==
    LET elems == Unnested(S)
    IN [c \in {e[1].split_certificates.v[e[2]] : e \in elems} |->
          Cardinality({e \in elems : e[1].split_certificates.v[e[2]] = c})]

\* ROUND(n / d, 0) for n >= 0 and d > 0: halves round away from zero
RoundDiv(n, d) == (2 * n + d) \div (2 * d)

\* send_receive_ratio_percent, in hundredths of a percent:
\* CASE WHEN receive > 0 THEN ROUND(send * 100.0 / receive, 2) ELSE 0 END
SendReceiveRatioPercent(receive, send) ==
    IF receive > 0 THEN RoundDiv(send * 10000, receive) ELSE 0

\* the match level with the first comparison strict
MatchLevelStrict(receive_count, send_count) ==
    IF send_count > receive_count * 2 THEN "high"
    ELSE IF send_count >= receive_count THEN "medium"
    ELSE IF send_count > 0 THEN "low"
    ELSE "none"

\* CASE WHEN send_count >= receive_count * 2 THEN '高匹配度' ... END
MatchLevel(receive_count, send_count) ==
    IF send_count >= receive_count * 2 THEN "high"
    ELSE IF send_count >= receive_count THEN "medium"
    ELSE IF send_count > 0 THEN "low"
    ELSE "none"

\* certificate_match_stats: the FULL OUTER JOIN of the two statistics
CertificateMatchStats(rcs, scs) ==
    {[certificate_name |-> c,
      receive_count |-> IF c \in DOMAIN rcs THEN rcs[c] ELSE 0,
      send_count |-> IF c \in DOMAIN scs THEN scs[c] ELSE 0,
      match_status |-> IF (IF c \in DOMAIN scs THEN scs[c] ELSE 0) > 0
                       THEN "matched" ELSE "unmatched",
      match_strength_score |-> (IF c \in DOMAIN rcs THEN rcs[c] ELSE 0)
                                 * (IF c \in DOMAIN scs THEN scs[c] ELSE 0),
      send_receive_ratio_percent |->
         SendReceiveRatioPercent(IF c \in DOMAIN rcs THEN rcs[c] ELSE 0,
                                 IF c \in DOMAIN scs THEN scs[c] ELSE 0)] :
       c \in DOMAIN rcs \cup DOMAIN scs}

\* CASE WHEN send_count > 0 THEN 1 ELSE 2 END
SendGroup(row) == IF row.send_count > 0 THEN 1 ELSE 2

\* a window order that ignores the group of the row
RankBeforeScoreOnly(a, b) ==
    a.match_strength_score > b.match_strength_score

\* the window order of RANK(): group, then match_strength_score DESC
RankBefore(a, b) ==
    \/ SendGroup(a) < SendGroup(b)
    \/ SendGroup(a) = SendGroup(b) /\ a.match_strength_score > b.match_strength_score

\* ORDER BY group, match_strength_score DESC, certificate_name
MatchOrder(a, b) ==
    \/ RankBefore(a, b)
    \/ /\ ~RankBefore(b, a)
       /\ TextLess(a.certificate_name, b.certificate_name)

\* the rank without gaps: one more than the distinct keys strictly ahead
PopularityRankNoGaps(stats, row) ==
    1 + Cardinality({<<SendGroup(x), x.match_strength_score>> :
                       x \in {y \in stats : RankBefore(y, row)}})

\* RANK() OVER (ORDER BY ...): one more than the rows strictly ahead
PopularityRank(stats, row) == 1 + Cardinality({x \in stats : RankBefore(x, row)})

RECURSIVE MatchSorted(_)
MatchSorted(S) ==
    IF S = {} THEN <<>>
    ELSE LET first == CHOOSE a \in S : \A b \in S \ {a} : MatchOrder(a, b)
         IN <<first>> \o MatchSorted(S \ {first})

\* the final SELECT for one numbering of each side
MatchStatsRows(rnReceive, rnSend) ==
    LET stats == CertificateMatchStats(
                     CertificateStats(ReceiveCertificates(rnReceive)),
                     CertificateStats(SendCertificates(rnSend)))
    IN MatchSorted(
         {[certificate_name |-> row.certificate_name,
           receive_count |-> row.receive_count,
           send_count |-> row.send_count,
           match_status |-> row.match_status,
           match_strength_score |-> row.match_strength_score,
           send_receive_ratio_percent |-> row.send_receive_ratio_percent,
           match_level |-> MatchLevel(row.receive_count, row.send_count),
           popularity_rank |-> PopularityRank(stats, row)] : row \in stats})

MatchStatsQuery ==
    {MatchStatsRows(rnR, rnS) :
       rnR \in RowNumbers({x \in Rows : IsDemand(x) /\ NonEmptyCerts(x)}),
       rnS \in RowNumbers({x \in Rows : IsSupply(x) /\ NonEmptyCerts(x)})}

QueryMatchStats ==
    /\ \E out \in MatchStatsQuery :
          response' = [query |-> "match_stats", rows |-> out]
    /\ UNCHANGED <<wechat_messages, now, handler>>

----------------------------------------------------------------------------
(* GET /api/certificates: the search route *)

LimitSearch == 30

LowerChar(c) ==
    CASE c = "A" -> "a"
      [] c = "B" -> "b"
      [] c = "H" -> "h"
      [] OTHER -> c

LowerText(text) == [i \in 1..Len(text) |-> LowerChar(text[i])]

\* text ILIKE '%pat%'; NULL text matches nothing
ILike(col, pat) ==
    /\ ~col.isnull
    /\ Like(LowerText(col.v), LowerText(pat))

\* certificate.trim().split(/\s+/).filter(cert => cert.length > 0)
RECURSIVE SplitWhitespace(_, _)
SplitWhitespace(text, word) ==
    IF text = <<>> THEN (IF word = <<>> THEN <<>> ELSE <<word>>)
    ELSE IF Head(text) = " "
         THEN (IF word = <<>> THEN <<>> ELSE <<word>>)
              \o SplitWhitespace(Tail(text), <<>>)
         ELSE SplitWhitespace(Tail(text), Append(word, Head(text)))

\* the certificates a request asks for: none when the parameter is absent
\* or blank
RequestedCertificates(certificate) ==
    IF certificate.isnull THEN <<>> ELSE SplitWhitespace(certificate.v, <<>>)

\* location filter: absent, empty and "全部" (quanbu) do not filter
LocationCondition(r, location) ==
    (~location.isnull /\ location.v # <<>> /\ location.v # <<"quanbu">>)
      => ILike(r.location, location.v)

\* the filter with AND between the certificates in place of OR
CertificateConditionAll(r, certificate) ==
    LET certificates == RequestedCertificates(certificate)
    IN certificates # <<>> =>
         \A i \in 1..Len(certificates) :
           certificates[i] \in Unnest(r.split_certificates)

\* ($i = ANY(split_certificates) OR ...), when a certificate is asked for
CertificateCondition(r, certificate) ==
    LET certificates == RequestedCertificates(certificate)
    IN certificates # <<>> =>
         \E i \in 1..Len(certificates) :
           certificates[i] \in Unnest(r.split_certificates)

BaseWhere(r, location, certificate) ==
    /\ LocationCondition(r, location)
    /\ CertificateCondition(r, certificate)

TypeText(r) == Val(r.type)

WebIsDemand(r) ==
    \/ ILike(TypeText(r), <<"shou">>)
    \/ ILike(TypeText(r), <<"jie">>)
    \/ ILike(TypeText(r), <<"zhao", "pin">>)
    \/ ILike(TypeText(r), <<"xun">>)
    \/ ILike(TypeText(r), <<"yao">>)
    \/ ILike(TypeText(r), <<"xu">>)
    \/ ILike(TypeText(r), <<"zhao3">>)

WebIsSupply(r) ==
    \/ ILike(TypeText(r), <<"chu">>)
    \/ ILike(TypeText(r), <<"gong">>)

\* CASE WHEN split_certificates IS NOT NULL
\*       AND array_length(split_certificates, 1) > 0 THEN 0 ELSE 1 END
CertificateGroup(r) == IF NonEmptyCerts(r) THEN 0 ELSE 1

\* the order by id alone
SearchOrderIdOnly(a, b) == a.id > b.id

\* ORDER BY CASE ... END, id DESC
SearchOrder(a, b) ==
    \/ CertificateGroup(a) < CertificateGroup(b)
    \/ CertificateGroup(a) = CertificateGroup(b) /\ a.id > b.id

\* the rows of S in search order; id is unique, so the order is total
RECURSIVE SearchSorted(_)
SearchSorted(S) ==
    IF S = {} THEN <<>>
    ELSE LET first == CHOOSE a \in S : \A b \in S \ {a} : SearchOrder(a, b)
         IN <<first>> \o SearchSorted(S \ {first})

\* SELECT ... FROM wechat_messages WHERE (<category>) <base> ORDER BY ...
\* LIMIT 30
SearchSql(S) == Limit(SearchSorted(S), LimitSearch)

ReceiveSql(location, certificate) ==
    SearchSql({r \in Rows : WebIsDemand(r) /\ BaseWhere(r, location, certificate)})

SendSql(location, certificate) ==
    SearchSql({r \in Rows : WebIsSupply(r) /\ BaseWhere(r, location, certificate)})

\* SELECT COUNT(*) as count FROM wechat_messages WHERE (<category>) <base>
ReceiveStatsSql(location, certificate) ==
    Cardinality({r \in Rows : WebIsDemand(r) /\ BaseWhere(r, location, certificate)})

SendStatsSql(location, certificate) ==
    Cardinality({r \in Rows : WebIsSupply(r) /\ BaseWhere(r, location, certificate)})

\* query parameters tried
LocationParams == {Null, Val(<<"h">>)}

CertificateParams ==
    {Null, Val(TagB), Val(TagB \o <<" ">> \o TagA), Val(<<"b", "zheng">>)}

\* the handler: the two lists, then the two counts, then the reply; of the
\* query string it reads location and certificate and nothing else
GetCertificatesFrom(LocSet, CertSet, LimitSet, OffsetSet) ==
    /\ \E location \in LocSet, certificate \in CertSet,
          limit \in LimitSet, offset \in OffsetSet :
          response' = [query |-> "certificates",
                       status |-> 200,
                       location |-> location,
                       certificate |-> certificate,
                       limit |-> limit,
                       offset |-> offset,
                       receive |-> ReceiveSql(location, certificate),
                       send |-> SendSql(location, certificate),
                       stats |-> <<ReceiveStatsSql(location, certificate),
                                   SendStatsSql(location, certificate)>>]
    /\ UNCHANGED <<wechat_messages, now, handler>>

\* requests that filter and give no limit or offset
GetCertificates ==
    GetCertificatesFrom(LocationParams, CertificateParams, {Null}, {Null})

\* limit and offset values of the query string, as parseInt reads them
PageLimitParams == {Null, Val(1)}

PageOffsetParams == {Null, Val(0), Val(1)}

\* requests that ask for a page
GetCertificatesPage ==
    GetCertificatesFrom({Null}, {Null}, PageLimitParams \ {Null}, PageOffsetParams \ {Null})

----------------------------------------------------------------------------
(* GET /api/certificates, query by query: each await is a step of its own, *)
(* and records may be ingested between two steps                           *)

HandlerCertificateParams == {Null, Val(TagB)}

\* the request arrives: the parameters are read and the SQL texts are built
SearchStart ==
    /\ handler.pc = "idle"
    /\ \E certificate \in HandlerCertificateParams :
          handler' = [IdleHandler EXCEPT !.pc = "receiveSql",
                                         !.certificate = certificate]
    /\ UNCHANGED <<wechat_messages, now, response>>

\* const receiveMessages = await prisma.$queryRawUnsafe(receiveSql, ...params)
RunReceiveSql ==
    /\ handler.pc = "receiveSql"
    /\ handler' = [handler EXCEPT
                     !.pc = "sendSql",
                     !.receive = ReceiveSql(handler.location, handler.certificate),
                     !.issued = Append(@, "receiveSql")]
    /\ UNCHANGED <<wechat_messages, now, response>>

\* const sendMessages = await prisma.$queryRawUnsafe(sendSql, ...params)
RunSendSql ==
    /\ handler.pc = "sendSql"
    /\ handler' = [handler EXCEPT
                     !.pc = "receiveStatsSql",
                     !.send = SendSql(handler.location, handler.certificate),
                     !.issued = Append(@, "sendSql")]
    /\ UNCHANGED <<wechat_messages, now, response>>

\* const receiveStats = await prisma.$queryRawUnsafe(receiveStatsSql, ...params)
RunReceiveStatsSql ==
    /\ handler.pc = "receiveStatsSql"
    /\ handler' = [handler EXCEPT
                     !.pc = "sendStatsSql",
                     !.receiveStats = ReceiveStatsSql(handler.location, handler.certificate),
                     !.issued = Append(@, "receiveStatsSql")]
    /\ UNCHANGED <<wechat_messages, now, response>>

\* const sendStats = await ...; return NextResponse.json({receive, send, stats})
RunSendStatsSql ==
    /\ handler.pc = "sendStatsSql"
    /\ handler' = [handler EXCEPT !.pc = "idle",
                                   !.issued = Append(@, "sendStatsSql")]
    /\ response' = [query |-> "certificates",
                    status |-> 200,
                    location |-> handler.location,
                    certificate |-> handler.certificate,
                    limit |-> Null,
                    offset |-> Null,
                    receive |-> handler.receive,
                    send |-> handler.send,
                    stats |-> <<handler.receiveStats,
                                SendStatsSql(handler.location, handler.certificate)>>]
    /\ UNCHANGED <<wechat_messages, now>>

\* the reply of the catch block
SearchError ==
    [query |-> "certificates", status |-> 500,
     error |-> "Failed to fetch certificates",
     receive |-> <<>>, send |-> <<>>, stats |-> <<>>]

\* a handler that issues the rejected query again
SearchQueryRetries ==
    /\ handler.pc \in {"receiveSql", "sendSql", "receiveStatsSql", "sendStatsSql"}
    /\ handler' = [handler EXCEPT !.issued = Append(@, handler.pc)]
    /\ UNCHANGED <<wechat_messages, now, response>>

\* the awaited query rejects: control passes to the catch block
SearchQueryFails ==
    /\ handler.pc \in {"receiveSql", "sendSql", "receiveStatsSql", "sendStatsSql"}
    /\ handler' = [handler EXCEPT !.pc = "idle",
                                   !.issued = Append(@, handler.pc),
                                   !.failed = handler.pc]
    /\ response' = SearchError
    /\ UNCHANGED <<wechat_messages, now>>

----------------------------------------------------------------------------
(* GET /api/messages: the message list *)

DefaultTake == 100

\* where: { type: { contains }, location: { contains } }; a parameter that
\* is absent or empty does not filter, and a NULL column contains nothing
MessagesWhere(r, type, location) ==
    /\ (~type.isnull /\ type.v # <<>>) => Like(r.type, type.v)
    /\ (~location.isnull /\ location.v # <<>>) =>
          (~r.location.isnull /\ Like(r.location.v, location.v))

\* orderBy: { timestamp: 'desc' }
TimestampDesc(a, b) == a.timestamp > b.timestamp

\* take: limit ? parseInt(limit) : 100
Take(limit) == IF limit.isnull THEN DefaultTake ELSE limit.v

\* skip: offset ? parseInt(offset) : 0
Skip(offset) == IF offset.isnull THEN 0 ELSE offset.v

\* the rows of list after the first skip, take of them at most
TakeSkip(list, take, skip) == SubSeq(list, skip + 1, Min2(Len(list), skip + take))

Reverse(list) == [i \in 1..Len(list) |-> list[Len(list) + 1 - i]]

\* take and skip as the client applies them: a negative take counts from
\* the end of the ordered list and keeps the order of the rows
TakeSkipSigned(list, take, skip) ==
    IF take >= 0 THEN TakeSkip(list, take, skip)
    ELSE Reverse(TakeSkip(Reverse(list), 0 - take, skip))

\* findMany({ where, orderBy, take, skip }): every result it can return
FindMany(type, location, limit, offset) ==
    {TakeSkipSigned(out, Take(limit), Skip(offset)) :
       out \in Orderings({r \in Rows : MessagesWhere(r, type, location)},
                         TimestampDesc)}

MessageTypeParams == {Null, Val(<<"chu">>)}

\* the reply of the catch block
MessagesError ==
    [query |-> "messages", status |-> 500, error |-> "Failed to fetch messages",
     rows |-> <<>>]

\* the handler; the client rejects a negative skip, which the catch block
\* turns into the 500 reply
GetMessagesFrom(TypeSet, LimitSet, OffsetSet) ==
    /\ \E type \in TypeSet, limit \in LimitSet, offset \in OffsetSet :
          IF Skip(offset) < 0
          THEN response' = MessagesError @@ [type |-> type, location |-> Null,
                                             limit |-> limit, offset |-> offset]
          ELSE \E out \in FindMany(type, Null, limit, offset) :
                 response' = [query |-> "messages",
                              status |-> 200,
                              error |-> "",
                              type |-> type,
                              location |-> Null,
                              limit |-> limit,
                              offset |-> offset,
                              rows |-> out]
    /\ UNCHANGED <<wechat_messages, now, handler>>

GetMessages == GetMessagesFrom(MessageTypeParams, PageLimitParams, PageOffsetParams)

\* limit and offset values below zero, next to valid ones
SignedLimitParams == {Null, Val(-1), Val(1)}

SignedOffsetParams == {Null, Val(-1), Val(1)}

GetMessagesSigned == GetMessagesFrom({Null}, SignedLimitParams, SignedOffsetParams)

GetCertificatesSigned ==
    GetCertificatesFrom({Null}, {Null}, SignedLimitParams, SignedOffsetParams)

----------------------------------------------------------------------------
(* GET /api/certificates/tags: tag suggestions and popular tags *)

DefaultTagLimit == 50
LimitPopular == 100
MinPopularCount == 5

\* SELECT unnest(split_certificates) as certificate FROM wechat_messages
\* WHERE split_certificates IS NOT NULL AND array_length(...) > 0:
\* one row per array element of every record
AllCerts ==
    UNION {{<<r.id, i>> : i \in 1..Len(r.split_certificates.v)} :
             r \in {x \in Rows : NonEmptyCerts(x)}}

CertAt(e) == wechat_messages[e[1]].split_certificates.v[e[2]]

\* GROUP BY certificate, COUNT(*)
TagCount(tag) == Cardinality({e \in AllCerts : CertAt(e) = tag})

\* the order by certificate alone
TagOrderByName(a, b) == TextLess(a.certificate, b.certificate)

\* ORDER BY count DESC, certificate ASC
TagOrder(a, b) ==
    \/ a.count > b.count
    \/ a.count = b.count /\ TextLess(a.certificate, b.certificate)

TagRows(tags) == {[certificate |-> tag, count |-> TagCount(tag)] : tag \in tags}

\* the rows of S in tag order; certificate is unique after GROUP BY, so
\* the order is total
RECURSIVE TagSorted(_)
TagSorted(S) ==
    IF S = {} THEN <<>>
    ELSE LET first == CHOOSE a \in S : \A b \in S \ {a} : TagOrder(a, b)
         IN <<first>> \o TagSorted(S \ {first})

\* the suggestion query: tags matching the search term, most frequent
\* first, cut to the limit
SuggestSql(search, limit) ==
    Limit(TagSorted(TagRows({tag \in {CertAt(e) : e \in AllCerts} :
                               ILike(Val(tag), search)})),
          limit)

\* the popular-tags query: HAVING COUNT(*) >= 5 ... LIMIT 100
PopularSql ==
    Limit(TagSorted({row \in TagRows({CertAt(e) : e \in AllCerts}) :
                       row.count >= MinPopularCount}),
          LimitPopular)

SearchParams == {Null, Val(<<>>), Val(<<"b">>), Val(<<"zheng">>)}

LimitParams == {Null, Val(1)}

\* const limit = parseInt(searchParams.get('limit') || '50')
ParsedLimit(limit) == IF limit.isnull THEN DefaultTagLimit ELSE limit.v

\* the reply of the catch block
TagsError ==
    [query |-> "tags", status |-> 500, error |-> "Failed to fetch certificate tags",
     rows |-> <<>>]

\* if (search) { suggestions } else { popular tags }; the database rejects
\* LIMIT with a negative value, which the catch block turns into the 500
\* reply
GetTagsFrom(SearchSet, LimitSet) ==
    /\ \E search \in SearchSet, limit \in LimitSet :
          IF ~search.isnull /\ search.v # <<>> /\ ParsedLimit(limit) < 0
          THEN response' = TagsError @@ [search |-> search, limit |-> limit]
          ELSE response' = [query |-> "tags",
                            status |-> 200,
                            error |-> "",
                            search |-> search,
                            limit |-> limit,
                            rows |-> IF ~search.isnull /\ search.v # <<>>
                                     THEN SuggestSql(search.v, ParsedLimit(limit))
                                     ELSE PopularSql]
    /\ UNCHANGED <<wechat_messages, now, handler>>

GetTags == GetTagsFrom(SearchParams, LimitParams)

\* the query of either mode rejects: control passes to the catch block
GetTagsFails ==
    /\ \E search \in {Null, Val(<<"b">>)} :
          response' = TagsError @@ [search |-> search, limit |-> Null]
    /\ UNCHANGED <<wechat_messages, now, handler>>

GetTagsSigned == GetTagsFrom({Null, Val(<<"b">>)}, SignedLimitParams)

----------------------------------------------------------------------------
(* Properties of classification and deduplication *)

FingerprintOf(r) == <<r.original_info, r.member_wxid>>

DedupQueries == {"receive_messages", "send_messages", "other_messages"}

SupplyInTable == {r \in Rows : IsSupply(r)}

\* the records a category query deduplicates
CategoryRecords(q) ==
    IF q = "receive_messages" THEN {r \in Rows : IsDemand(r)}
    ELSE IF q = "send_messages" THEN {r \in Rows : IsSupply(r)}
    ELSE {r \in Rows : IsOther(r)}

\* C1: a category query returns exactly one row per distinct Fingerprint of
\* the category's records; that row is a record of the Fingerprint's
\* partition with maximal created_at, and its duplicate_count is the
\* size of the partition.
C1_DedupOnePerFingerprint ==
    response.query \in DedupQueries =>
      LET S == CategoryRecords(response.query)
          out == response.rows
      IN /\ \A r \in S :
              Cardinality({i \in 1..Len(out) :
                             FingerprintOf(out[i].msg) = FingerprintOf(r)}) = 1
         /\ \A i \in 1..Len(out) :
              LET class == {s \in S : FingerprintOf(s) = FingerprintOf(out[i].msg)}
              IN /\ out[i].msg \in class
                 /\ \A s \in class : s.created_at <= out[i].msg.created_at
                 /\ out[i].duplicate_count = Cardinality(class)

\* a demand listing posted at time 1 and posted again at time 2 is
\* returned once, as the later record with duplicate_count 2 (Scenario 1)
C1_Witness ==
    /\ response.query = "receive_messages"
    /\ \E i \in 1..Len(response.rows) :
          /\ response.rows[i].duplicate_count = 2
          /\ response.rows[i].msg.created_at = 2
          /\ \E s \in Rows : /\ IsDemand(s)
                              /\ FingerprintOf(s) = FingerprintOf(response.rows[i].msg)
                              /\ s.created_at = 1

\* C2: Demand is checked before Supply, so no record is both in the Demand
\* set and in the Supply set of the category queries.
C2_DemandExcludesSupply ==
    /\ response.query = "send_messages" =>
         \A i \in 1..Len(response.rows) : ~IsDemand(response.rows[i].msg)
    /\ response.query = "receive_messages" =>
         \A i \in 1..Len(response.rows) : ~IsSupply(response.rows[i].msg)

\* C3: every record satisfies at least one category predicate, and the
\* Other predicate holds exactly for the records that are neither Demand
\* nor Supply.
C3_ClassificationTotal ==
    \A r \in Rows :
      /\ IsDemand(r) \/ IsSupply(r) \/ IsOther(r)
      /\ IsOther(r) <=> (~IsDemand(r) /\ ~IsSupply(r))

\* the other-category query has answered over a table holding a record of
\* each kind: other, supply only, demand only, and both markers
C3_Witness ==
    /\ response.query = "other_messages"
    /\ Len(response.rows) = 1
    /\ \E r \in Rows : IsSupply(r) /\ ~IsDemand(r)
    /\ \E r \in Rows : IsDemand(r)

\* C15: a category query returns at most as many rows as the category
\* has records, as many exactly when the records have pairwise distinct
\* Fingerprints, and none when the category has no record.
C15_DedupCardinality ==
    response.query \in DedupQueries =>
      LET S == CategoryRecords(response.query)
      IN /\ Len(response.rows) <= Cardinality(S)
         /\ Len(response.rows) = Cardinality(S)
              <=> \A r, q \in S : r # q => FingerprintOf(r) # FingerprintOf(q)
         /\ S = {} => response.rows = <<>>

\* three supply listings, two of one Fingerprint, give two rows
C15_Witness ==
    /\ response.query = "send_messages"
    /\ Cardinality(SupplyInTable) = 3
    /\ Len(response.rows) = 2

\* the representatives a reply holds, and its category as the query names it
RepresentativesOf(rows) == {rows[i].msg : i \in 1..Len(rows)}

CategoryName(q) ==
    IF q = "receive_messages" THEN "shou"
    ELSE IF q = "send_messages" THEN "chu" ELSE "qita"

CategoryLimit(q) ==
    IF q = "receive_messages" THEN LimitReceive
    ELSE IF q = "send_messages" THEN LimitSend ELSE LimitOther

\* C16: deduplicating the representatives of a reply returns the same
\* representatives, each with duplicate_count 1.
C16_DedupIdempotent ==
    response.query \in DedupQueries =>
      \A again \in DedupQuery(RepresentativesOf(response.rows),
                              CategoryName(response.query),
                              CategoryLimit(response.query)) :
        /\ RepresentativesOf(again) = RepresentativesOf(response.rows)
        /\ \A i \in 1..Len(again) : again[i].duplicate_count = 1

\* the reply of the other-category query holds two representatives, one of
\* them standing for two records
C16_Witness ==
    /\ response.query = "other_messages"
    /\ Len(response.rows) = 2
    /\ \E i \in 1..Len(response.rows) : response.rows[i].duplicate_count = 2

\* every reply a category query can give on the table
QueryOutcomes(q) ==
    IF q = "receive_messages" THEN ReceiveMessages
    ELSE IF q = "send_messages" THEN SendMessages ELSE OtherMessages

\* C17: a second evaluation of a category query on the same table selects
\* the same representative for every Fingerprint as the reply just given,
\* also when records of a partition share created_at.
C17_SelectionDeterministic ==
    response.query \in DedupQueries =>
      \A again \in QueryOutcomes(response.query) :
        RepresentativesOf(again) = RepresentativesOf(response.rows)

\* the record a step appends
Appended == wechat_messages'[Len(wechat_messages')]

\* the step appends a re-post of a Demand listing: a Demand record with the
\* Fingerprint and type of an existing one, later than every record of
\* that Fingerprint
AppendsDemandRepost ==
    /\ Len(wechat_messages') = Len(wechat_messages) + 1
    /\ SubSeq(wechat_messages', 1, Len(wechat_messages)) = wechat_messages
    /\ IsDemand(Appended)
    /\ \E r \in Rows : /\ IsDemand(r)
                        /\ FingerprintOf(r) = FingerprintOf(Appended)
                        /\ r.type = Appended.type
    /\ \A r \in Rows : FingerprintOf(r) = FingerprintOf(Appended)
                          => r.created_at < Appended.created_at

\* C27: appending a re-post of a Demand listing leaves the number of
\* Demand representatives unchanged, makes the new record the
\* representative of its Fingerprint, raises the duplicate_count of that
\* Fingerprint by exactly 1, and leaves the representative and the
\* duplicate_count of every other Fingerprint unchanged.
C27_RepostFrame ==
    [][AppendsDemandRepost =>
         /\ \A before \in ReceiveMessages, after \in ReceiveMessages' :
               /\ Len(after) = Len(before)
               /\ \E j \in 1..Len(after) : after[j].msg = Appended
               /\ \A i \in 1..Len(before), j \in 1..Len(after) :
                     FingerprintOf(before[i].msg) = FingerprintOf(after[j].msg) =>
                       IF FingerprintOf(after[j].msg) = FingerprintOf(Appended)
                       THEN after[j].duplicate_count = before[i].duplicate_count + 1
                       ELSE /\ after[j].msg = before[i].msg
                            /\ after[j].duplicate_count = before[i].duplicate_count
         /\ \A before \in AllMessagesQuery, after \in AllMessagesQuery' :
               \A i \in 1..Len(before), j \in 1..Len(after) :
                 FingerprintOf(before[i].msg) = FingerprintOf(after[j].msg) =>
                   IF FingerprintOf(after[j].msg) = FingerprintOf(Appended)
                   THEN after[j].duplicate_count = before[i].duplicate_count + 1
                   ELSE after[j].duplicate_count = before[i].duplicate_count]_vars

----------------------------------------------------------------------------
(* Properties of the search and tag routes *)

\* r is a most recent record of its Fingerprint class within S
IsLatestIn(S, r) ==
    /\ r \in S
    /\ \A s \in S : FingerprintOf(s) = FingerprintOf(r) => s.created_at <= r.created_at

\* the ways to pick one most recent record from every Fingerprint class of S
RepresentativeSets(S) ==
    {R \in SUBSET {r \in S : IsLatestIn(S, r)} :
       \A r \in S : Cardinality({x \in R : FingerprintOf(x) = FingerprintOf(r)}) = 1}

\* the records of R that carry tag t
Carriers(R, t) == {x \in R : t \in Unnest(x.split_certificates)}

Deduplicated(list, S) ==
    /\ \A i, j \in 1..Len(list) :
          i # j => FingerprintOf(list[i]) # FingerprintOf(list[j])
    /\ \A i \in 1..Len(list) : IsLatestIn(S, list[i])

\* C4: neither list of a search reply holds two records of one Fingerprint,
\* and every record returned is the most recent of its Fingerprint class.
C4_SearchOverRepresentatives ==
    response.query = "certificates" =>
      /\ Deduplicated(response.receive, {r \in Rows : WebIsDemand(r)})
      /\ Deduplicated(response.send, {r \in Rows : WebIsSupply(r)})

\* the records of a category that pass the location filter of the request
\* and carry at least one of the tags asked for
TagMatches(IsCategory(_), location, tags) ==
    {r \in Rows : /\ IsCategory(r)
                  /\ LocationCondition(r, location)
                  /\ Range(tags) \cap Unnest(r.split_certificates) # {}}

\* C18: with a tag filter a record is returned if and only if its
\* split_certificates holds at least one of the tags asked for, by exact
\* equality; a record with empty or absent split_certificates is not.
C18_TagFilterIsOr ==
    (response.query = "certificates"
       /\ RequestedCertificates(response.certificate) # <<>>) =>
      LET tags == RequestedCertificates(response.certificate)
      IN /\ Range(response.receive) = TagMatches(WebIsDemand, response.location, tags)
         /\ Range(response.send) = TagMatches(WebIsSupply, response.location, tags)
         /\ response.stats[1] = Cardinality(TagMatches(WebIsDemand, response.location, tags))
         /\ response.stats[2] = Cardinality(TagMatches(WebIsSupply, response.location, tags))
         /\ \A r \in Range(response.receive) \cup Range(response.send) :
               NonEmptyCerts(r)

\* asked for two tags, the reply lists a record that carries one of them
\* only, and leaves out a record of the category without certificates
C18_Witness ==
    /\ response.query = "certificates"
    /\ Len(RequestedCertificates(response.certificate)) = 2
    /\ \E i \in 1..Len(response.send) :
          response.send[i].split_certificates = Val(<<TagB>>)
    /\ \E r \in Rows : WebIsSupply(r) /\ ~NonEmptyCerts(r)

\* C19: in each list of a search reply every record with certificates
\* precedes every record without, and within each of the two groups the
\* ids are strictly descending.
C19_SearchOrdering ==
    response.query = "certificates" =>
      \A list \in {response.receive, response.send} :
        \A i, j \in 1..Len(list) :
          i < j =>
            /\ ~(~NonEmptyCerts(list[i]) /\ NonEmptyCerts(list[j]))
            /\ (NonEmptyCerts(list[i]) <=> NonEmptyCerts(list[j]))
                 => list[i].id > list[j].id

\* a list of three: two records with certificates in descending id order,
\* then a record without certificates whose id is the highest
C19_Witness ==
    /\ response.query = "certificates"
    /\ Len(response.receive) = 3
    /\ NonEmptyCerts(response.receive[1])
    /\ NonEmptyCerts(response.receive[2])
    /\ ~NonEmptyCerts(response.receive[3])
    /\ response.receive[3].id > response.receive[1].id

\* positions offset .. offset + limit - 1 of a sequence, counted from 0
Page(list, limit, offset) ==
    SubSeq(list, offset + 1, Min2(Len(list), offset + limit))

\* C20: for a given limit and offset the reply is exactly the elements at
\* positions offset .. offset + limit - 1 of the complete filtered and
\* ordered sequence, in the message list and in both lists of the search
\* route.
C20_Pagination ==
    /\ (response.query = "messages"
          /\ ~response.limit.isnull /\ ~response.offset.isnull) =>
         \E full \in Orderings({r \in Rows :
                                  MessagesWhere(r, response.type, response.location)},
                               TimestampDesc) :
           response.rows = Page(full, response.limit.v, response.offset.v)
    /\ (response.query = "certificates"
          /\ ~response.limit.isnull /\ ~response.offset.isnull) =>
         /\ response.receive =
              Page(SearchSorted({r \in Rows :
                                   /\ WebIsDemand(r)
                                   /\ BaseWhere(r, response.location, response.certificate)}),
                   response.limit.v, response.offset.v)
         /\ response.send =
              Page(SearchSorted({r \in Rows :
                                   /\ WebIsSupply(r)
                                   /\ BaseWhere(r, response.location, response.certificate)}),
                   response.limit.v, response.offset.v)

\* the error texts of the catch blocks, which name no parameter
GenericErrors ==
    {"Failed to fetch messages", "Failed to fetch certificate tags",
     "Failed to fetch certificates"}

NegativeParam(p) == ~p.isnull /\ p.v < 0

\* C21: a request with a negative limit or a negative offset gets an error
\* reply that describes the violated constraint, and never a result list.
C21_NegativeParamsRejected ==
    /\ (response.query = "messages"
          /\ (NegativeParam(response.limit) \/ NegativeParam(response.offset))) =>
         (response.status # 200 /\ response.error \notin GenericErrors)
    /\ (response.query = "tags" /\ NegativeParam(response.limit)) =>
         (response.status # 200 /\ response.error \notin GenericErrors)
    /\ (response.query = "certificates"
          /\ (NegativeParam(response.limit) \/ NegativeParam(response.offset))) =>
         response.status # 200

NoRepeats(list) == \A i, j \in 1..Len(list) : i # j => list[i] # list[j]

\* C22: a failed read ends the request with the 500 reply that carries an
\* error field and no data; the failed query is the last one the request
\* issued and no query is issued twice; the next request starts from
\* nothing the failed one left behind.
C22_FailedReadGives500 ==
    /\ [](/\ NoRepeats(handler.issued)
          /\ handler.failed # "none" =>
               /\ handler.pc = "idle"
               /\ handler.issued # <<>>
               /\ handler.issued[Len(handler.issued)] = handler.failed
          /\ (response.query = "certificates" /\ response.status = 500) =>
               /\ response.error # ""
               /\ response.receive = <<>>
               /\ response.send = <<>>
               /\ response.stats = <<>>
          /\ (response.query = "tags" /\ response.status = 500) =>
               /\ response.error # ""
               /\ response.rows = <<>>)
    /\ [][/\ (handler.failed = "none" /\ handler'.failed # "none") =>
               (response'.query = "certificates" /\ response'.status = 500)
          /\ handler'.pc = "receiveSql" =>
               handler' = [IdleHandler EXCEPT !.pc = "receiveSql",
                                              !.certificate = handler'.certificate]]_vars

\* the second query of a request failed: the reply is the 500 reply and
\* the request issued the first two queries only
C22_Witness ==
    /\ handler.failed = "sendSql"
    /\ handler.issued = <<"receiveSql", "sendSql">>
    /\ response = SearchError
    /\ Len(wechat_messages) > 0

\* the first k records of the table: the store as it was after k ingestions
Snapshot(k) == {wechat_messages[i] : i \in 1..k}

\* C23: the lists and the counts of a search reply are computed over one
\* state of the store, so each list is as long as min(30, its count).
C23_ConsistentSnapshot ==
    (response.query = "certificates" /\ response.status = 200) =>
      /\ \E k \in 0..Len(wechat_messages) :
            LET demand == {r \in Snapshot(k) :
                             /\ WebIsDemand(r)
                             /\ BaseWhere(r, response.location, response.certificate)}
                supply == {r \in Snapshot(k) :
                             /\ WebIsSupply(r)
                             /\ BaseWhere(r, response.location, response.certificate)}
            IN /\ response.receive = SearchSql(demand)
               /\ response.send = SearchSql(supply)
               /\ response.stats = <<Cardinality(demand), Cardinality(supply)>>
      /\ Len(response.receive) = Min2(LimitSearch, response.stats[1])
      /\ Len(response.send) = Min2(LimitSearch, response.stats[2])

\* every tag some record carries
AllTags == UNION {Unnest(r.split_certificates) : r \in Rows}

\* the number of records whose split_certificates holds the tag
RecordsCarrying(t) == Cardinality({r \in Rows : t \in Unnest(r.split_certificates)})

\* row a comes before row b: count descending, then tag ascending
TagRowBefore(a, b) ==
    \/ a.count > b.count
    \/ a.count = b.count /\ TextLess(a.certificate, b.certificate)

\* the limit a request asks for, 50 when it gives none
RequestedTagLimit(limit) == IF limit.isnull THEN DefaultTagLimit ELSE limit.v

\* rows are the first lim of the rows of the tags in candidates, each with
\* its record count, ordered by count descending then tag ascending
FirstOfTagRanking(rows, candidates, lim) ==
    /\ \A i \in 1..Len(rows) :
          /\ rows[i].certificate \in candidates
          /\ rows[i].count = RecordsCarrying(rows[i].certificate)
    /\ \A i, j \in 1..Len(rows) : i < j => TagRowBefore(rows[i], rows[j])
    /\ Len(rows) = Min2(lim, Cardinality(candidates))
    /\ \A t \in candidates \ {rows[i].certificate : i \in 1..Len(rows)} :
          \A i \in 1..Len(rows) :
            ~TagRowBefore([certificate |-> t, count |-> RecordsCarrying(t)], rows[i])

HasSearchTerm(search) == ~search.isnull /\ search.v # <<>>

C25_TrendingTags ==
    (response.query = "tags" /\ response.status = 200
       /\ ~HasSearchTerm(response.search)) =>
      /\ \A i \in 1..Len(response.rows) : response.rows[i].count >= MinPopularCount
      /\ FirstOfTagRanking(response.rows,
                           {t \in AllTags : RecordsCarrying(t) >= MinPopularCount},
                           RequestedTagLimit(response.limit))

\* C5: the count returned for a tag is the number of Fingerprint
\* representatives that carry the tag, so a re-post does not raise it.
C5_TagCountsOverRepresentatives ==
    response.query = "tags" =>
      \A i \in 1..Len(response.rows) :
        \E R \in RepresentativeSets(Rows) :
          response.rows[i].count =
            Cardinality(Carriers(R, response.rows[i].certificate))

----------------------------------------------------------------------------
(* Properties of the matching queries *)

DemandRecords == {r \in Rows : IsDemand(r)}

SupplyRecords == {r \in Rows : IsSupply(r)}

\* the sum over the tags of the number of records of R carrying each
RECURSIVE CarrierSum(_, _)
CarrierSum(tags, R) ==
    IF tags = {} THEN 0
    ELSE LET t == CHOOSE x \in tags : TRUE
         IN Cardinality(Carriers(R, t)) + CarrierSum(tags \ {t}, R)

\* the tags of d that some record of R carries
MatchingTags(d, R) == {t \in Unnest(d.split_certificates) : Carriers(R, t) # {}}

AsList(arr) == IF arr.isnull THEN <<>> ELSE arr.v

StrictlyAscending(list) ==
    \A i, j \in 1..Len(list) : i < j => TextLess(list[i], list[j])

\* C6: total_supply_count of a Demand representative is the sum, over its
\* distinct tags, of the number of Supply representatives carrying the tag,
\* a Supply representative being the most recent record of its Fingerprint
\* class among the Supply records.
C6_TotalSupplyCount ==
    response.query = "supply_stats" =>
      \A i \in 1..Len(response.rows) :
        \E R \in RepresentativeSets(SupplyRecords) :
          response.rows[i].total_supply_count =
            CarrierSum(Unnest(response.rows[i].msg.split_certificates), R)

AvailableTagsAre(d, list, count, R) ==
    /\ Range(list) = MatchingTags(d, R)
    /\ StrictlyAscending(list)
    /\ count = Len(list)

\* C7: the available tags of a Demand representative are exactly its
\* distinct tags carried by some Supply representative, in ascending order
\* without repetition, and the available count is the length of that list.
C7_AvailableTags ==
    /\ response.query = "supply_stats" =>
         \A i \in 1..Len(response.rows) :
           \E R \in RepresentativeSets(SupplyRecords) :
             AvailableTagsAre(response.rows[i].msg,
                              AsList(response.rows[i].available_certificates),
                              response.rows[i].available_certificates_count, R)
    /\ response.query = "available_certificates" =>
         \A i \in 1..Len(response.rows) :
           \E R \in RepresentativeSets(SupplyRecords) :
             AvailableTagsAre(response.rows[i].msg,
                              AsList(response.rows[i].available_certificates_list),
                              response.rows[i].available_certificates_count, R)

\* C8: the available count is at most the number of tags of the listing;
\* total_supply_count is at least the available count, and equal to it
\* exactly when every matching tag is carried by one Supply representative.
C8_CountBounds ==
    /\ response.query = "supply_stats" =>
         \A i \in 1..Len(response.rows) :
           LET row == response.rows[i]
           IN \E R \in RepresentativeSets(SupplyRecords) :
                /\ row.available_certificates_count
                     <= Len(AsList(row.msg.split_certificates))
                /\ row.total_supply_count >= row.available_certificates_count
                /\ row.total_supply_count = row.available_certificates_count
                     <=> \A t \in MatchingTags(row.msg, R) :
                           Cardinality(Carriers(R, t)) = 1
    /\ response.query = "available_certificates" =>
         \A i \in 1..Len(response.rows) :
           /\ response.rows[i].available_certificates_count
                <= response.rows[i].total_certificates_count
           /\ response.rows[i].total_certificates_count
                = Len(AsList(response.rows[i].msg.split_certificates))

\* the replies a and b of the two availability queries list the same
\* Demand representatives with the same available count and list
SameAvailability(a, b) ==
    /\ {a[i].msg : i \in 1..Len(a)} = {b[j].msg : j \in 1..Len(b)}
    /\ \A i \in 1..Len(a), j \in 1..Len(b) :
          a[i].msg = b[j].msg =>
            /\ a[i].available_certificates_count = b[j].available_certificates_count
            /\ AsList(a[i].available_certificates)
                 = AsList(b[j].available_certificates_list)

\* C26: on every table the two per-listing availability queries agree: a
\* reply of one is matched by a reply of the other with the same Demand
\* representatives, available counts and available lists.
C26_AvailabilityQueriesAgree ==
    /\ response.query = "supply_stats" =>
         \E other \in AvailableQuery : SameAvailability(response.rows, other)
    /\ response.query = "available_certificates" =>
         \E other \in SupplyStatsQuery : SameAvailability(other, response.rows)

\* C9: the aggregate table has one row for every tag carried by a Demand
\* or Supply representative and for no other tag; its counts are the
\* numbers of representatives carrying the tag, and the score their product.
C9_AggregateRows ==
    response.query = "match_stats" =>
      \E RD \in RepresentativeSets(DemandRecords), RS \in RepresentativeSets(SupplyRecords) :
        /\ {response.rows[i].certificate_name : i \in 1..Len(response.rows)}
             = {t \in AllTags : Carriers(RD, t) # {} \/ Carriers(RS, t) # {}}
        /\ \A i, j \in 1..Len(response.rows) :
              i # j => response.rows[i].certificate_name # response.rows[j].certificate_name
        /\ \A i \in 1..Len(response.rows) :
              LET row == response.rows[i]
              IN /\ row.receive_count = Cardinality(Carriers(RD, row.certificate_name))
                 /\ row.send_count = Cardinality(Carriers(RS, row.certificate_name))
                 /\ row.receive_count + row.send_count >= 1
                 /\ row.match_strength_score = row.receive_count * row.send_count

\* C10: every aggregate row has the level "high" if send >= 2 * receive,
\* else "medium" if send >= receive, else "low" if 0 < send < receive,
\* else "none"; the level is "none" exactly when send_count is 0, and
\* receive_count 3 with send_count 6 is level "high".
C10_MatchLevel ==
    response.query = "match_stats" =>
      \A i \in 1..Len(response.rows) :
        LET row == response.rows[i]
            rc == row.receive_count
            sc == row.send_count
        IN /\ row.match_level \in {"high", "medium", "low", "none"}
           /\ row.match_level = "high" <=> sc >= 2 * rc
           /\ row.match_level = "medium" <=> (sc < 2 * rc /\ sc >= rc)
           /\ row.match_level = "low" <=> (0 < sc /\ sc < rc)
           /\ row.match_level = "none" <=> sc = 0
           /\ MatchLevel(3, 6) = "high"

\* the table shows a level "high" tag (1 demand, 2 supply) whose score is
\* the product of its counts, next to a tag nobody supplies
C10_Witness ==
    /\ response.query = "match_stats"
    /\ \E i, j \in 1..Len(response.rows) :
          /\ response.rows[i].match_level = "high"
          /\ response.rows[i].receive_count = 1
          /\ response.rows[i].send_count = 2
          /\ response.rows[i].match_strength_score = 2
          /\ response.rows[j].match_level = "none"

Max2(a, b) == IF a > b THEN a ELSE b

\* C11: in every aggregate row the ratio is send_count divided by
\* max(receive_count, 1), times 100, rounded to two decimals (the model
\* counts hundredths of a percent), also when receive_count is 0.
C11_RatioPercent ==
    response.query = "match_stats" =>
      \A i \in 1..Len(response.rows) :
        response.rows[i].send_receive_ratio_percent =
          RoundDiv(response.rows[i].send_count * 10000,
                   Max2(response.rows[i].receive_count, 1))

\* row a is strictly ahead of row b by the key (group, score descending)
StrictlyAhead(a, b) ==
    \/ (a.send_count > 0) /\ (b.send_count = 0)
    \/ /\ (a.send_count > 0) <=> (b.send_count > 0)
       /\ a.match_strength_score > b.match_strength_score

SameRankKey(a, b) == ~StrictlyAhead(a, b) /\ ~StrictlyAhead(b, a)

\* C12: the aggregate rows come with supplied tags first, then by score
\* descending, ties by tag name ascending; rows with equal (group, score)
\* share one rank, and a rank is one more than the rows strictly ahead.
C12_OrderAndRank ==
    response.query = "match_stats" =>
      LET out == response.rows
      IN /\ \A i, j \in 1..Len(out) :
              i < j =>
                /\ ~StrictlyAhead(out[j], out[i])
                /\ SameRankKey(out[i], out[j]) =>
                     TextLess(out[i].certificate_name, out[j].certificate_name)
         /\ \A i, j \in 1..Len(out) :
              SameRankKey(out[i], out[j]) =>
                out[i].popularity_rank = out[j].popularity_rank
         /\ \A i \in 1..Len(out) :
              out[i].popularity_rank =
                1 + Cardinality({j \in 1..Len(out) : StrictlyAhead(out[j], out[i])})

\* two supplied tags tie at rank 1 and the tag nobody supplies has rank 3
C12_Witness ==
    /\ response.query = "match_stats"
    /\ Len(response.rows) = 3
    /\ response.rows[1].popularity_rank = 1
    /\ response.rows[2].popularity_rank = 1
    /\ response.rows[1].certificate_name = TagA
    /\ response.rows[2].certificate_name = TagB
    /\ response.rows[3].popularity_rank = 3
    /\ response.rows[3].send_count = 0

\* C13: among the tags with send_count > 0 a higher score never has a
\* larger rank, and every tag with send_count = 0 has a rank strictly
\* greater than that of every tag with send_count > 0.
C13_RankOrdering ==
    response.query = "match_stats" =>
      \A i, j \in 1..Len(response.rows) :
        LET a == response.rows[i]
            b == response.rows[j]
        IN /\ (/\ a.send_count > 0
               /\ b.send_count > 0
               /\ a.match_strength_score > b.match_strength_score)
                => a.popularity_rank <= b.popularity_rank
           /\ (a.send_count = 0 /\ b.send_count > 0)
                => a.popularity_rank > b.popularity_rank

\* a demanded tag nobody supplies ranks behind two supplied tags of
\* different scores, one of them demanded by nobody
C13_Witness ==
    /\ response.query = "match_stats"
    /\ \E i, j, k \in 1..Len(response.rows) :
          /\ response.rows[i].send_count > 0
          /\ response.rows[j].send_count > 0
          /\ response.rows[i].match_strength_score > response.rows[j].match_strength_score
          /\ response.rows[j].receive_count = 0
          /\ response.rows[k].send_count = 0
          /\ response.rows[k].receive_count > 0
          /\ response.rows[k].popularity_rank = 3

\* the send_count and the score an aggregate table shows for tag t
SendCountOf(out, t) ==
    IF \E i \in 1..Len(out) : out[i].certificate_name = t
    THEN out[CHOOSE i \in 1..Len(out) : out[i].certificate_name = t].send_count
    ELSE 0

ScoreOf(out, t) ==
    IF \E i \in 1..Len(out) : out[i].certificate_name = t
    THEN out[CHOOSE i \in 1..Len(out) : out[i].certificate_name = t].match_strength_score
    ELSE 0

\* the step appends a Supply record whose Fingerprint no Supply record had
AddsSupplyRepresentative ==
    /\ Len(wechat_messages') = Len(wechat_messages) + 1
    /\ SubSeq(wechat_messages', 1, Len(wechat_messages)) = wechat_messages
    /\ LET new == wechat_messages'[Len(wechat_messages')]
       IN /\ IsSupply(new)
          /\ \A r \in SupplyRecords : FingerprintOf(r) # FingerprintOf(new)

\* the tags of the record the step appends
AddedTags == Unnest(wechat_messages'[Len(wechat_messages')].split_certificates)

\* C14: adding a Supply record with a new Fingerprint that carries tag t
\* never decreases send_count(t), match_strength_score(t), or the
\* total_supply_count of a Demand representative whose tags include t,
\* between a query before the step and a query after it.
C14_MatchingMonotone ==
    [][AddsSupplyRepresentative =>
         \A t \in AddedTags :
           /\ \A before \in MatchStatsQuery, after \in MatchStatsQuery' :
                 /\ SendCountOf(after, t) >= SendCountOf(before, t)
                 /\ ScoreOf(after, t) >= ScoreOf(before, t)
           /\ \A before \in SupplyStatsQuery, after \in SupplyStatsQuery' :
                 \A i \in 1..Len(before), j \in 1..Len(after) :
                   (/\ before[i].msg = after[j].msg
                    /\ t \in Unnest(before[i].msg.split_certificates))
                     => after[j].total_supply_count >= before[i].total_supply_count]_vars

----------------------------------------------------------------------------

Next ==
    \/ Ingest
    \/ QueryReceive
    \/ QuerySend
    \/ QueryOther

Spec == Init /\ [][Next]_vars

\* demand and supply listings with certificates to match
MatchIngest ==
    IngestFrom(MaxRecords, {TypeDemand, TypeSupply, TypeBoth},
               {<<"A", "x">>, <<"B", "x">>},
               {Null, Val(<<TagB>>), Val(<<TagB, TagA>>)}, {Null})

MatchNext ==
    \/ MatchIngest
    \/ QuerySupplyStats
    \/ QueryAvailable
    \/ QueryMatchStats

MatchSpec == Init /\ [][MatchNext]_vars

\* listings of three tags, so that ranks can tie and leave a gap
RankIngest ==
    IngestFrom(MaxRecords, {TypeDemand, TypeSupply}, {<<"A", "x">>, <<"B", "x">>},
               {Val(<<TagA, TagB>>), Val(<<TagA, TagC>>), Val(<<TagC>>)}, {Null})

RankNext ==
    \/ RankIngest
    \/ QueryMatchStats

RankSpec == Init /\ [][RankNext]_vars

\* one listing more, of two tags, so that a representative can be added
\* next to listings that tie on created_at
MonoIngest ==
    IngestFrom(MaxMonoRecords, {TypeDemand, TypeSupply}, {<<"A", "x">>, <<"B", "x">>},
               {Val(<<TagB>>), Val(<<TagA>>)}, {Null})

MonoNext ==
    \/ MonoIngest
    \/ QueryMatchStats

MonoSpec == Init /\ [][MonoNext]_vars

\* messages of two timestamps, listed page by page
PageIngest ==
    IngestWith(MaxRecords, {TypeDemand, TypeSupply}, {<<"A", "x">>},
               {Val(<<>>), Val(<<TagB>>)}, {Null}, {1, 2})

PageNext ==
    \/ PageIngest
    \/ GetMessages
    \/ GetCertificatesPage

PageSpec == Init /\ [][PageNext]_vars

\* a few supply listings, asked for with limits and offsets of either sign
ParamIngest ==
    IngestWith(MaxRecords, {TypeSupply}, {<<"A", "x">>}, {Val(<<TagB>>)}, {Null}, {1, 2})

ParamNext ==
    \/ ParamIngest
    \/ GetMessagesSigned
    \/ GetTagsSigned
    \/ GetCertificatesSigned

ParamSpec == Init /\ [][ParamNext]_vars

\* listings that arrive while a search request is being served
HandlerIngest ==
    IngestFrom(MaxRecords, {TypeDemand, TypeSupply}, {<<"A", "x">>},
               {Null, Val(<<TagB>>)}, {Null})

HandlerNext ==
    \/ HandlerIngest
    \/ SearchStart
    \/ RunReceiveSql
    \/ RunSendSql
    \/ RunReceiveStatsSql
    \/ RunSendStatsSql
    \/ SearchQueryFails
    \/ GetTagsFails

HandlerSpec == Init /\ [][HandlerNext]_vars

\* demand listings of two posters, posted again and again
RepostIngest ==
    IngestFrom(MaxMonoRecords, {TypeDemand}, {<<"A", "x">>, <<"B", "x">>},
               {Null, Val(<<TagB>>)}, {Null})

RepostNext ==
    \/ RepostIngest
    \/ QueryReceive
    \/ QueryAllMessages

RepostSpec == Init /\ [][RepostNext]_vars

\* listings as the search page sees them
SearchIngest ==
    IngestFrom(MaxRecords, {TypeDemand, TypeSupply}, {<<"A", "x">>, <<"B", "x">>},
               {Null, Val(<<TagB>>), Val(<<TagB, TagA>>)}, {Val(<<"H", "z">>)})

SearchNext ==
    \/ SearchIngest
    \/ GetCertificates

SearchSpec == Init /\ [][SearchNext]_vars

\* enough listings of few kinds for a tag to become popular
TagIngest ==
    IngestFrom(MaxTagRecords, {TypeDemand}, {<<"A", "x">>, <<"B", "x">>},
               {Val(<<>>), Val(<<TagB>>), Val(<<TagB, TagA>>)}, {Null})

TagNext ==
    \/ TagIngest
    \/ GetTags

TagSpec == Init /\ [][TagNext]_vars

====
